---- MODULE Spec2Model ----
(***************************************************************************)
(* Consignment-store backend: the commission engine.                       *)
(*                                                                         *)
(* The data store is the shared state (the tables sale_items,              *)
(* commission_tracking, commission_items, commission_payments).  Every     *)
(* HTTP request runs in a request slot; every awaited store call of a      *)
(* handler is one atomic step, so requests interleave between store calls  *)
(* exactly as the single-threaded event loop lets them.  Every store call  *)
(* may fail (the client returns {error}).  A response is an output of the  *)
(* step that sends it: the ...Response operators give it as a function of  *)
(* the request's inputs, the handler's locals and the store at that step.  *)
(***************************************************************************)
EXTENDS Integers, Sequences, FiniteSets, TLC

\* ------------------------------------------------------------------ bounds
\* Largest commission_tracking id the store hands out in a run.
MaxTrack == 2
\* Largest number of commission_payments rows in a run.
MaxPay == 2

\* Request slots: the HTTP requests that can be in flight at the same time.
Reqs == {1, 2}
\* Consignor ids used in requests and sale items (7 is the spec's scenario).
Consignors == {7, 8}
\* Report periods <<period_start, period_end>>; dates are day numbers.
Periods == {<<1, 2>>}
\* Amounts a client may submit.
AmountValues == {0, 1}

\* --------------------------------------------------------- JS value model
\* A nullable number: <<>> is null, <<n>> is the number n.
Null == <<>>
Some(n) == <<n>>

\* JS `v || 0` on a nullable number (part_002:56-57): null and 0 give 0.
OrZero(v) == IF v = Null THEN 0 ELSE v[1]

\* A request-body value: undefined or a JSON number.
Undefined == [t |-> "undefined", v |-> 0]
Num(n) == [t |-> "number", v |-> n]

\* JS `!v`: undefined and the number 0 are falsy.
Falsy(a) == a.t = "undefined" \/ (a.t = "number" /\ a.v = 0)

\* parseFloat of a number: the number itself.
ParseFloat(a) == a.v

\* ------------------------------------------------------------ sale items
\* The sale items that may be recorded while the server runs: id, consignor,
\* the parent sale's date, line_total and the (nullable) commission computed
\* at sale time.  The first is dated inside the period, the second after it.
SaleCatalog ==
    { [id |-> 1, consignor_id |-> 7, sale_date |-> 2, line_total |-> 2, commission |-> Null],
      [id |-> 2, consignor_id |-> 7, sale_date |-> 3, line_total |-> 1, commission |-> Some(1)] }

VARIABLES
    sale_items,            \* table sale_items (joined with sale_header.sale_date)
    commission_tracking,   \* table commission_tracking: set of rows
    commission_items,      \* table commission_items: set of rows
    commission_payments,   \* table commission_payments: set of rows
    nextTrackingId,        \* next id the store gives a commission_tracking row
    pc,                    \* pc[r]: the store call request slot r awaits ("idle": none)
    arg,                   \* arg[r]: the request's inputs
    loc,                   \* loc[r]: the handler's local variables
    clean,                 \* history: no store call has failed and no two requests overlapped
    reported,              \* history: reported[k]: tracking id the last report for key k
                           \* returned (0: none), kept while the run is clean
    call,                  \* the agreement request or helper call under study
    result,                \* what that call sent to the store or returned
    products,              \* table products: set of rows
    product_locations      \* table product_locations: set of rows

vars == <<sale_items, commission_tracking, commission_items, commission_payments,
          nextTrackingId, pc, arg, loc, clean, reported, call, result,
          products, product_locations>>

\* The variables of the commission handlers, and those of the calls that are
\* studied on their own.
storeVars == <<sale_items, commission_tracking, commission_items, commission_payments,
               nextTrackingId, pc, arg, loc, clean, reported>>
callVars == <<call, result>>
productVars == <<products, product_locations>>

NoCall == [op |-> "none"]
NoResult == [kind |-> "none"]

tables == <<commission_tracking, commission_items, commission_payments>>

Keys == Consignors \X Periods
TrackingIds == 1..MaxTrack

\* ------------------------------------------------------------- responses
\* A response: status code, message and body.  Continue stands for "no
\* response yet": the handler goes on to its next store call.
NoBody == [kind |-> "none"]
Response(code, msg, body) == [code |-> code, msg |-> msg, body |-> body]
Continue == Response(0, "continue", NoBody)
Sent(response) == response.code # 0

NoArg == [consignor_id |-> 0, period_start |-> 0, period_end |-> 0, id |-> 0,
          amount |-> Undefined]
NoLoc == [tracking |-> {}, saleItems |-> {}, items |-> {}, totalCommission |-> 0,
          totalSales |-> 0, payment |-> {}, itemsError |-> FALSE]

InFlight(r) == pc[r] # "idle"

\* A handler is entered: the slot is free.
Enter(r) == pc[r] = "idle"

\* No other request is in flight when r enters.
Alone(r) == \A q \in Reqs \ {r} : ~InFlight(q)

\* The handler has sent its response and returns.
Finish(r) ==
    /\ pc' = [pc EXCEPT ![r] = "idle"]
    /\ arg' = [arg EXCEPT ![r] = NoArg]
    /\ loc' = [loc EXCEPT ![r] = NoLoc]

\* The handler awaits its next store call.
Await(r, a, l, label) ==
    /\ pc' = [pc EXCEPT ![r] = label]
    /\ arg' = [arg EXCEPT ![r] = a]
    /\ loc' = [loc EXCEPT ![r] = l]

\* After a store call: the handler returns if it sent a response, and
\* awaits the next call otherwise.
Proceed(r, response, a, l, label) ==
    IF Sent(response) THEN Finish(r) ELSE Await(r, a, l, label)

\* The history after a step: the run stays clean if it was and the step is
\* good (its store call did not fail, its request overlaps no other); rep is
\* the record of the reports returned, forgotten once the run is not clean.
NoReports == [k \in Keys |-> 0]

History(good, rep) ==
    /\ clean' = (clean /\ good)
    /\ reported' = IF clean /\ good THEN rep ELSE NoReports

\* --------------------------------------------------------------- createSale
\* A sale is recorded: one more sale item of the catalog enters sale_items.
createSale(s) ==
    /\ s \notin sale_items
    /\ sale_items' = sale_items \cup {s}
    /\ UNCHANGED <<tables, nextTrackingId, pc, arg, loc, clean, reported>>
    /\ UNCHANGED <<callVars, productVars>>

\* ------------------------------------------- getOrCreateCommissionReport
\* Sums of the mapped sale items (part_002:55-57).
\* A faulty variant of the commission sum, which adds up line_total.
RECURSIVE SumCommission_lineTotal(_)
SumCommission_lineTotal(S) ==
    IF S = {} THEN 0
    ELSE LET x == CHOOSE y \in S : TRUE
         IN  x.line_total + SumCommission_lineTotal(S \ {x})

RECURSIVE SumCommission(_)
SumCommission(S) ==
    IF S = {} THEN 0
    ELSE LET x == CHOOSE y \in S : TRUE
         IN  OrZero(x.commission) + SumCommission(S \ {x})

RECURSIVE SumSales(_)
SumSales(S) ==
    IF S = {} THEN 0
    ELSE LET x == CHOOSE y \in S : TRUE
         IN  x.line_total + SumSales(S \ {x})

\* A faulty variant of the lookup, which finds only records still pending.
LookupTracking_pendingOnly(c, ps, pe) ==
    { t \in commission_tracking :
        /\ t.consignor_id = c /\ t.period_start = ps /\ t.period_end = pe
        /\ t.status = "pending" }

\* The lookup by the exact triple (part_002:23-28).
LookupTracking(c, ps, pe) ==
    { t \in commission_tracking :
        t.consignor_id = c /\ t.period_start = ps /\ t.period_end = pe }

\* The sale_items query (part_002:39-47).  sale_header is embedded without
\* !inner (contrast part_006:43), so the two date filters shape the embedded
\* sale_header of each row and do not remove rows: every sale item of the
\* consignor is returned, with sale_header null when its date is outside
\* the period.
InPeriod(s, ps, pe) == ps <= s.sale_date /\ s.sale_date <= pe

SaleItemsQuery(c, ps, pe) ==
    { [id |-> s.id, line_total |-> s.line_total, commission |-> s.commission,
       sale_header |-> IF InPeriod(s, ps, pe) THEN Some(s.sale_date) ELSE Null] :
      s \in { x \in sale_items : x.consignor_id = c } }

\* The mapped commission items, before they carry the tracking id
\* (part_002:55-67).
CommissionItemsData(saleItems) ==
    { [commission_tracking_id |-> Null, sale_item_id |-> s.id,
       sale_amount |-> s.line_total, commission_amount |-> s.commission] :
      s \in saleItems }

\* The commission_items rows inserted (part_002:89-92).
ItemsToInsert(saleItems, tid) ==
    { [i EXCEPT !.commission_tracking_id = tid] : i \in CommissionItemsData(saleItems) }

\* The commission_tracking row inserted (part_002:71-80).
NewTracking(id, c, ps, pe, totalCommission, totalSales) ==
    [id |-> id, consignor_id |-> c, period_start |-> ps, period_end |-> pe,
     total_commission |-> totalCommission, total_sales |-> totalSales,
     status |-> "pending", paid_amount |-> 0]

ReportBody(t, items, payments) ==
    [kind |-> "report", tracking |-> t, commission_items |-> items, payments |-> payments]

InternalError == Response(500, "Internal server error", NoBody)
NoSales == Response(200, "No sales found for this period.", [kind |-> "report null"])
ReportProcessed(body) == Response(200, "Commission report processed successfully.", body)

\* The one row a handler holds in a local variable.
TheRow(S) == CHOOSE t \in S : TRUE

\* Input validation and the lookup of the existing record (part_002:11-38).
\* maybeSingle answers with an error when more than one row matches.
ReportLookupResponse(c, p, complete, ok) ==
    IF ~complete
    THEN Response(400, "Consignor ID, period start, and period end are required.", NoBody)
    ELSE IF ~ok \/ Cardinality(LookupTracking(c, p[1], p[2])) > 1 THEN InternalError
    ELSE Continue

ReportLookup(r, c, p, complete, ok) ==
    /\ Enter(r)
    /\ Proceed(r, ReportLookupResponse(c, p, complete, ok),
               [NoArg EXCEPT !.consignor_id = c, !.period_start = p[1], !.period_end = p[2]],
               [NoLoc EXCEPT !.tracking = LookupTracking(c, p[1], p[2])],
               IF LookupTracking(c, p[1], p[2]) = {} THEN "reportQuerySales"
               ELSE "reportReloadItems")
    /\ History((~complete \/ ok) /\ Alone(r), reported)
    /\ UNCHANGED <<sale_items, tables, nextTrackingId>>
    /\ UNCHANGED <<callVars, productVars>>

\* The sale-items query and the in-memory sums (part_002:39-67).
QueriedSaleItems(r) ==
    SaleItemsQuery(arg[r].consignor_id, arg[r].period_start, arg[r].period_end)

ReportQuerySalesResponse(r, ok) ==
    IF ~ok THEN InternalError
    ELSE IF QueriedSaleItems(r) = {} THEN NoSales
    ELSE Continue

ReportQuerySales(r, ok) ==
    /\ pc[r] = "reportQuerySales"
    /\ Proceed(r, ReportQuerySalesResponse(r, ok), arg[r],
               [loc[r] EXCEPT !.saleItems = QueriedSaleItems(r),
                              !.items = CommissionItemsData(QueriedSaleItems(r)),
                              !.totalCommission = SumCommission(QueriedSaleItems(r)),
                              !.totalSales = SumSales(QueriedSaleItems(r))],
               "reportInsertTracking")
    /\ History(ok, reported)
    /\ UNCHANGED <<sale_items, tables, nextTrackingId>>
    /\ UNCHANGED <<callVars, productVars>>

\* The insert of the tracking row (part_002:69-87).
ReportInsertTrackingResponse(r, ok) == IF ~ok THEN InternalError ELSE Continue

ReportInsertTracking(r, ok) ==
    /\ pc[r] = "reportInsertTracking"
    /\ ok => nextTrackingId <= MaxTrack
    /\ LET newTracking == NewTracking(nextTrackingId, arg[r].consignor_id,
                                      arg[r].period_start, arg[r].period_end,
                                      loc[r].totalCommission, loc[r].totalSales)
       IN  /\ commission_tracking' = IF ok THEN commission_tracking \cup {newTracking}
                                     ELSE commission_tracking
           /\ Proceed(r, ReportInsertTrackingResponse(r, ok), arg[r],
                      [loc[r] EXCEPT !.tracking = {newTracking}], "reportInsertItems")
    /\ nextTrackingId' = IF ok THEN nextTrackingId + 1 ELSE nextTrackingId
    /\ History(ok, reported)
    /\ UNCHANGED <<sale_items, commission_items, commission_payments>>
    /\ UNCHANGED <<callVars, productVars>>

\* The batch insert of the items (part_002:89-98).
ReportInsertItems(r, ok) ==
    /\ pc[r] = "reportInsertItems"
    /\ commission_items' =
           IF ok THEN commission_items \cup
                        ItemsToInsert(loc[r].saleItems, TheRow(loc[r].tracking).id)
                 ELSE commission_items
    /\ Await(r, arg[r], loc[r], IF ok THEN "reportFetchPayments" ELSE "reportCompensate")
    /\ History(ok, reported)
    /\ UNCHANGED <<sale_items, commission_tracking, commission_payments, nextTrackingId>>
    /\ UNCHANGED <<callVars, productVars>>

\* The compensating delete, whose result the handler does not read, then the
\* throw into the catch block (part_002:98-101, 131-134).
ReportCompensateResponse(r, ok) == InternalError

ReportCompensate(r, ok) ==
    /\ pc[r] = "reportCompensate"
    /\ commission_tracking' =
           IF ok THEN { t \in commission_tracking : t.id # TheRow(loc[r].tracking).id }
                 ELSE commission_tracking
    /\ Proceed(r, ReportCompensateResponse(r, ok), arg[r], loc[r], "idle")
    /\ History(ok, reported)
    /\ UNCHANGED <<sale_items, commission_items, commission_payments, nextTrackingId>>
    /\ UNCHANGED <<callVars, productVars>>

\* The reload of the items of an existing record (part_002:102-114).
ReportReloadItemsResponse(r, ok) == IF ~ok THEN InternalError ELSE Continue

ReportReloadItems(r, ok) ==
    /\ pc[r] = "reportReloadItems"
    /\ LET existingTracking == TheRow(loc[r].tracking)
       IN  Proceed(r, ReportReloadItemsResponse(r, ok), arg[r],
                   [loc[r] EXCEPT !.items = { i \in commission_items :
                                                i.commission_tracking_id = existingTracking.id },
                                  !.totalCommission = existingTracking.total_commission,
                                  !.totalSales = existingTracking.total_sales],
                   "reportFetchPayments")
    /\ History(ok, reported)
    /\ UNCHANGED <<sale_items, tables, nextTrackingId>>
    /\ UNCHANGED <<callVars, productVars>>

\* The payments fetch, whose error is only logged, and the response
\* (part_002:116-129).
ReportFetchPaymentsResponse(r, ok) ==
    LET existingTracking == TheRow(loc[r].tracking)
        payments == IF ok THEN { p \in commission_payments :
                                   p.commission_tracking_id = existingTracking.id }
                    ELSE {}
    IN  ReportProcessed(ReportBody(existingTracking, loc[r].items, payments))

ReportFetchPayments(r, ok) ==
    /\ pc[r] = "reportFetchPayments"
    /\ Proceed(r, ReportFetchPaymentsResponse(r, ok), arg[r], loc[r], "idle")
    /\ History(ok, [reported EXCEPT
                      ![<<arg[r].consignor_id, <<arg[r].period_start, arg[r].period_end>>>>] =
                          ReportFetchPaymentsResponse(r, ok).body.tracking.id])
    /\ UNCHANGED <<sale_items, tables, nextTrackingId>>
    /\ UNCHANGED <<callVars, productVars>>

\* ------------------------------------------------ POST /commissions/payment
\* A faulty variant of the status gate, which lets a paid record through.
Payable_alsoPaid(status) == status \in {"pending", "calculated", "paid"}

\* The status gate of recordPayment (part_000:183).
Payable(status) == status \in {"pending", "calculated"}

\* The amount comparison (part_000:187); total_commission is a number.
AmountMatches(amount, total_commission) == ParseFloat(amount) = ParseFloat(Num(total_commission))

\* The required-field check (part_000:165); complete says that
\* commission_tracking_id, payment_date and payment_method are supplied.
MissingFields(complete, amount) == ~complete \/ Falsy(amount)

TrackingById(id) == { t \in commission_tracking : t.id = id }

\* The required-field check, the fetch of the record and the status and
\* amount checks (part_000:153-191).
PayFetchResponse(id, amount, complete, ok) ==
    LET commission == TrackingById(id)
    IN  IF MissingFields(complete, amount)
        THEN Response(400, "Missing required fields", NoBody)
        ELSE IF ~ok THEN Response(500, "Error fetching commission", NoBody)
        ELSE IF commission = {} \/ ~Payable(TheRow(commission).status)
        THEN Response(404, "Commission not found or already paid", NoBody)
        ELSE IF ~AmountMatches(amount, TheRow(commission).total_commission)
        THEN Response(400, "Payment amount must match commission amount",
                      [kind |-> "mismatch", amount |-> amount,
                       total_commission |-> TheRow(commission).total_commission])
        ELSE Continue

PayFetch(r, id, amount, complete, ok) ==
    /\ Enter(r)
    /\ Proceed(r, PayFetchResponse(id, amount, complete, ok),
               [NoArg EXCEPT !.id = id, !.amount = amount],
               [NoLoc EXCEPT !.tracking = TrackingById(id)], "payInsert")
    /\ History((MissingFields(complete, amount) \/ ok) /\ Alone(r), reported)
    /\ UNCHANGED <<sale_items, tables, nextTrackingId>>
    /\ UNCHANGED <<callVars, productVars>>

\* The insert of the payment row (part_000:194-213).
PayInsertResponse(r, ok) ==
    IF ~ok THEN Response(500, "Error recording payment", NoBody) ELSE Continue

\* A faulty variant of the insert, whose row is stored although the call
\* reports a failure.
PayInsert_keepsRowOnFailure(r, ok) ==
    /\ pc[r] = "payInsert"
    /\ Cardinality(commission_payments) < MaxPay
    /\ LET payment == [id |-> Cardinality(commission_payments) + 1,
                       commission_tracking_id |-> arg[r].id, amount |-> arg[r].amount]
       IN  /\ commission_payments' = commission_payments \cup {payment}
           /\ Proceed(r, PayInsertResponse(r, ok), arg[r],
                      [loc[r] EXCEPT !.payment = {payment}], "payUpdate")
    /\ History(ok, reported)
    /\ UNCHANGED <<sale_items, commission_tracking, commission_items, nextTrackingId>>
    /\ UNCHANGED <<callVars, productVars>>

PayInsert(r, ok) ==
    /\ pc[r] = "payInsert"
    /\ ok => Cardinality(commission_payments) < MaxPay
    /\ LET payment == [id |-> Cardinality(commission_payments) + 1,
                       commission_tracking_id |-> arg[r].id, amount |-> arg[r].amount]
       IN  /\ commission_payments' = IF ok THEN commission_payments \cup {payment}
                                     ELSE commission_payments
           /\ Proceed(r, PayInsertResponse(r, ok), arg[r],
                      [loc[r] EXCEPT !.payment = {payment}], "payUpdate")
    /\ History(ok, reported)
    /\ UNCHANGED <<sale_items, commission_tracking, commission_items, nextTrackingId>>
    /\ UNCHANGED <<callVars, productVars>>

\* The status update, which touches the rows with the id that are still
\* there, and the response (part_000:216-226).
PayUpdateResponse(r, ok) ==
    IF ~ok THEN Response(500, "Payment inserted but failed to update commission status", NoBody)
    ELSE Response(201, "success", [kind |-> "payment", payment |-> TheRow(loc[r].payment)])

\* A faulty variant of the update, which also books the commission as the
\* paid amount.
MarkPaid_booksPaidAmount(id) ==
    { IF t.id = id THEN [t EXCEPT !.status = "paid", !.paid_amount = t.total_commission]
      ELSE t : t \in commission_tracking }

MarkPaid(id) ==
    { IF t.id = id THEN [t EXCEPT !.status = "paid"] ELSE t : t \in commission_tracking }

PayUpdate(r, ok) ==
    /\ pc[r] = "payUpdate"
    /\ commission_tracking' = IF ok THEN MarkPaid(arg[r].id) ELSE commission_tracking
    /\ Proceed(r, PayUpdateResponse(r, ok), arg[r], loc[r], "idle")
    /\ History(ok, reported)
    /\ UNCHANGED <<sale_items, commission_items, commission_payments, nextTrackingId>>
    /\ UNCHANGED <<callVars, productVars>>

\* A faulty variant of the classification, which answers an absent record
\* as one in an unpayable status.
VerifyResponse_conflatesNotFound(id, ok) ==
    LET commission == TrackingById(id)
    IN  IF ~ok THEN Response(500, "Internal server error during verification", NoBody)
        ELSE IF commission # {} /\ Payable(TheRow(commission).status)
        THEN Response(200, "Commission is valid for payment",
                      [kind |-> "verify", commission_id |-> TheRow(commission).id,
                       total_commission |-> TheRow(commission).total_commission])
        ELSE IF commission # {} /\ TheRow(commission).status = "paid"
        THEN Response(400, "Commission has already been paid", NoBody)
        ELSE Response(400, "Commission is in an unpayable status",
                      [kind |-> "status",
                       status |-> IF commission = {} THEN "none"
                                  ELSE TheRow(commission).status])

\* ------------------------------------------------ GET /commissions/:id/verify
\* The whole handler: one store call (part_000:102-146).  single() answers
\* PGRST116 when no row matches.
VerifyResponse(id, ok) ==
    LET commission == TrackingById(id)
        status == TheRow(commission).status
    IN  IF ~ok THEN Response(500, "Internal server error during verification", NoBody)
        ELSE IF commission = {} THEN Response(404, "Commission not found", NoBody)
        ELSE IF status = "pending" \/ status = "calculated"
        THEN Response(200, "Commission is valid for payment",
                      [kind |-> "verify", commission_id |-> TheRow(commission).id,
                       total_commission |-> TheRow(commission).total_commission])
        ELSE IF status = "paid"
        THEN Response(400, "Commission has already been paid", NoBody)
        ELSE Response(400, "Commission is in an unpayable status",
                      [kind |-> "status", status |-> status])

\* A faulty variant of verify, which marks a pending record calculated.
Verify_marksCalculated(r, id, ok) ==
    /\ Enter(r)
    /\ Proceed(r, VerifyResponse(id, ok), NoArg, NoLoc, "idle")
    /\ History(ok /\ Alone(r), reported)
    /\ commission_tracking' =
           { IF t.id = id /\ t.status = "pending" /\ ok
             THEN [t EXCEPT !.status = "calculated"] ELSE t : t \in commission_tracking }
    /\ UNCHANGED <<sale_items, commission_items, commission_payments, nextTrackingId>>
    /\ UNCHANGED <<callVars, productVars>>

Verify(r, id, ok) ==
    /\ Enter(r)
    /\ Proceed(r, VerifyResponse(id, ok), NoArg, NoLoc, "idle")
    /\ History(ok /\ Alone(r), reported)
    /\ UNCHANGED <<sale_items, tables, nextTrackingId>>
    /\ UNCHANGED <<callVars, productVars>>

\* ------------------------------------------------ verifyCommissionTracking
\* The controller's verification (part_002:140-163); wellFormed says that the
\* id has the 36-character form the handler asks for.  Any status but paid
\* is answered as valid.
verifyCommissionTrackingResponse(id, wellFormed, ok) ==
    LET tracking == TrackingById(id)
    IN  IF ~wellFormed THEN Response(400, "Invalid Commission Tracking ID.", NoBody)
        ELSE IF ~ok THEN Response(500, "Internal server error", NoBody)
        ELSE IF tracking = {}
        THEN Response(404, "Commission tracking record not found.", NoBody)
        ELSE IF TheRow(tracking).status = "paid"
        THEN Response(400, "Commission already paid.", NoBody)
        ELSE Response(200, "valid", [kind |-> "valid"])

verifyCommissionTracking(r, id, wellFormed, ok) ==
    /\ Enter(r)
    /\ Proceed(r, verifyCommissionTrackingResponse(id, wellFormed, ok), NoArg, NoLoc, "idle")
    /\ History((~wellFormed \/ ok) /\ Alone(r), reported)
    /\ UNCHANGED <<sale_items, tables, nextTrackingId>>
    /\ UNCHANGED <<callVars, productVars>>

\* ----------------------------------------------- GET /commissions/:id/details
\* The header fetch (part_000:63-74): an error and no row both answer 404.
DetailsHeaderResponse(id, ok) ==
    IF ~ok \/ TrackingById(id) = {} THEN Response(404, "Commission not found", NoBody)
    ELSE Continue

DetailsHeader(r, id, ok) ==
    /\ Enter(r)
    /\ Proceed(r, DetailsHeaderResponse(id, ok), [NoArg EXCEPT !.id = id],
               [NoLoc EXCEPT !.tracking = TrackingById(id)], "detailsItems")
    /\ History(ok /\ Alone(r), reported)
    /\ UNCHANGED <<sale_items, tables, nextTrackingId>>
    /\ UNCHANGED <<callVars, productVars>>

\* The response of the handler (part_000:92-96).
DetailsResponse(l, payment) ==
    IF l.itemsError THEN Response(500, "Error fetching commission items", NoBody)
    ELSE Response(200, "details", [kind |-> "details", header |-> TheRow(l.tracking),
                                   items |-> l.items, payment |-> payment])

\* The items fetch (part_000:76-82); a paid header goes on to the payment
\* fetch before the items error is looked at.
DetailsItemsLoc(r, ok) ==
    [loc[r] EXCEPT !.items = IF ok THEN { i \in commission_items :
                                            i.commission_tracking_id = arg[r].id }
                             ELSE {},
                   !.itemsError = ~ok]

DetailsItemsResponse(r, ok) ==
    IF TheRow(loc[r].tracking).status = "paid" THEN Continue
    ELSE DetailsResponse(DetailsItemsLoc(r, ok), {})

DetailsItems(r, ok) ==
    /\ pc[r] = "detailsItems"
    /\ Proceed(r, DetailsItemsResponse(r, ok), arg[r], DetailsItemsLoc(r, ok), "detailsPayment")
    /\ History(ok, reported)
    /\ UNCHANGED <<sale_items, tables, nextTrackingId>>
    /\ UNCHANGED <<callVars, productVars>>

\* The payment fetch (part_000:83-90): single() gives data only when exactly
\* one row matches, and its error is not read.
DetailsPaymentResponse(r, ok) ==
    LET rows == { p \in commission_payments : p.commission_tracking_id = arg[r].id }
    IN  DetailsResponse(loc[r], IF ok /\ Cardinality(rows) = 1 THEN rows ELSE {})

DetailsPayment(r, ok) ==
    /\ pc[r] = "detailsPayment"
    /\ Proceed(r, DetailsPaymentResponse(r, ok), arg[r], loc[r], "idle")
    /\ History(ok, reported)
    /\ UNCHANGED <<sale_items, tables, nextTrackingId>>
    /\ UNCHANGED <<callVars, productVars>>

\* ------------------------------------- GET /commissions/unpaid and /paid
\* The whole handlers: one store call each (part_000:8-58).
ListResponse(ok, status) ==
    IF ok THEN Response(200, "list", [kind |-> "list",
                                      rows |-> { t \in commission_tracking : t.status = status }])
    ELSE Response(500, "Internal server error", NoBody)

UnpaidResponse(ok) == ListResponse(ok, "pending")

PaidResponse(ok) == ListResponse(ok, "paid")

Unpaid(r, ok) ==
    /\ Enter(r)
    /\ Proceed(r, UnpaidResponse(ok), NoArg, NoLoc, "idle")
    /\ History(ok /\ Alone(r), reported)
    /\ UNCHANGED <<sale_items, tables, nextTrackingId>>
    /\ UNCHANGED <<callVars, productVars>>

Paid(r, ok) ==
    /\ Enter(r)
    /\ Proceed(r, PaidResponse(ok), NoArg, NoLoc, "idle")
    /\ History(ok /\ Alone(r), reported)
    /\ UNCHANGED <<sale_items, tables, nextTrackingId>>
    /\ UNCHANGED <<callVars, productVars>>

\* ------------------------------------------------------------------ system
\* A value for the amount field of a payment request.
Amounts == {Undefined} \cup { Num(n) : n \in AmountValues }

\* The store when the server starts: empty, or holding one report that was
\* generated earlier for consignor 7 from one sale inside the period, with
\* its commission item.  The report stands in status calculated, or in a
\* status outside the lifecycle, which the handlers provide for
\* (part_000:139-145).
SeedSale == [id |-> 3, consignor_id |-> 7, sale_date |-> 1, line_total |-> 2,
             commission |-> Some(1)]
SeedStatuses == {"calculated", "cancelled"}
SeedTracking(status) ==
    [NewTracking(1, 7, 1, 2, SumCommission({SeedSale}), SumSales({SeedSale}))
       EXCEPT !.status = status]

Init ==
    /\ \/ /\ sale_items = {}
          /\ commission_tracking = {}
          /\ commission_items = {}
          /\ nextTrackingId = 1
       \/ \E status \in SeedStatuses :
             /\ sale_items = {SeedSale}
             /\ commission_tracking = {SeedTracking(status)}
             /\ commission_items = ItemsToInsert({SeedSale}, 1)
             /\ nextTrackingId = 2
    /\ commission_payments = {}
    /\ pc = [r \in Reqs |-> "idle"]
    /\ arg = [r \in Reqs |-> NoArg]
    /\ loc = [r \in Reqs |-> NoLoc]
    /\ clean = TRUE
    /\ reported = NoReports
    /\ call = NoCall
    /\ result = NoResult
    /\ products = {}
    /\ product_locations = {}

Next ==
    \/ \E s \in SaleCatalog : createSale(s)
    \/ \E r \in Reqs, c \in Consignors, p \in Periods, complete \in BOOLEAN, ok \in BOOLEAN :
           ReportLookup(r, c, p, complete, ok)
    \/ \E r \in Reqs, ok \in BOOLEAN : ReportQuerySales(r, ok)
    \/ \E r \in Reqs, ok \in BOOLEAN : ReportInsertTracking(r, ok)
    \/ \E r \in Reqs, ok \in BOOLEAN : ReportInsertItems(r, ok)
    \/ \E r \in Reqs, ok \in BOOLEAN : ReportCompensate(r, ok)
    \/ \E r \in Reqs, ok \in BOOLEAN : ReportReloadItems(r, ok)
    \/ \E r \in Reqs, ok \in BOOLEAN : ReportFetchPayments(r, ok)
    \/ \E r \in Reqs, id \in TrackingIds, amount \in Amounts, complete \in BOOLEAN, ok \in BOOLEAN :
           PayFetch(r, id, amount, complete, ok)
    \/ \E r \in Reqs, ok \in BOOLEAN : PayInsert(r, ok)
    \/ \E r \in Reqs, ok \in BOOLEAN : PayUpdate(r, ok)
    \/ \E r \in Reqs, id \in TrackingIds, ok \in BOOLEAN : Verify(r, id, ok)
    \/ \E r \in Reqs, id \in TrackingIds, wellFormed \in BOOLEAN, ok \in BOOLEAN :
           verifyCommissionTracking(r, id, wellFormed, ok)
    \/ \E r \in Reqs, id \in TrackingIds, ok \in BOOLEAN : DetailsHeader(r, id, ok)
    \/ \E r \in Reqs, ok \in BOOLEAN : DetailsItems(r, ok)
    \/ \E r \in Reqs, ok \in BOOLEAN : DetailsPayment(r, ok)
    \/ \E r \in Reqs, ok \in BOOLEAN : Unpaid(r, ok)
    \/ \E r \in Reqs, ok \in BOOLEAN : Paid(r, ok)

Spec == Init /\ [][Next]_vars


\* ====================================================================
\* Agreement writes and helper calls, studied one call at a time
\* ====================================================================

\* Further JS values of a request body: null and strings.
JsNull == [t |-> "null", v |-> 0]
Str(s) == [t |-> "string", v |-> 0, s |-> s]

\* A field that carries a value: neither undefined (left out of the JSON
\* sent to the store) nor null.
Populated(a) == a.t \notin {"undefined", "null"}

\* The bodies of agreement requests: the fields the handlers validate and
\* the policy with its two conditional fields.  The remaining fields
\* (discount schedule, acknowledgment, store purchase) are passed on without
\* reference to the policy.
AgreementBodies ==
    [productId : {Undefined, Num(1)},
     consignorId : {Undefined, Num(7)},
     commissionRate : {Undefined, JsNull, Num(0), Num(10)},
     unsoldItemPolicy : {Undefined, Str("keep"), Str("return"), Str("donate")},
     returnFallbackDays : {Undefined, JsNull, Num(30)},
     charityChoice : {Undefined, JsNull, Str("shelter")}]

\* The required-field check of addAgreement (part_003:61-65).
AgreementMissingFields(body) ==
    \/ Falsy(body.productId)
    \/ Falsy(body.consignorId)
    \/ body.commissionRate.t \in {"undefined", "null"}

\* A faulty variant of the payload, which passes charityChoice on whatever
\* the policy.
RpcPayload_keepsCharity(body) ==
    [p_product_id |-> body.productId,
     p_consignor_id |-> body.consignorId,
     p_commission_rate |-> body.commissionRate,
     p_unsold_item_policy |-> body.unsoldItemPolicy,
     p_return_fallback_days |->
         IF body.unsoldItemPolicy = Str("return") THEN body.returnFallbackDays ELSE JsNull,
     p_charity_choice |-> body.charityChoice]

\* The parameters sent to the store function (part_003:81-105, and the same
\* lines in updateAgreement and in the second addAgreement).
RpcPayload(body) ==
    [p_product_id |-> body.productId,
     p_consignor_id |-> body.consignorId,
     p_commission_rate |-> body.commissionRate,
     p_unsold_item_policy |-> body.unsoldItemPolicy,
     p_return_fallback_days |->
         IF body.unsoldItemPolicy = Str("return") THEN body.returnFallbackDays ELSE JsNull,
     p_charity_choice |->
         IF body.unsoldItemPolicy = Str("donate") THEN body.charityChoice ELSE JsNull]

Rpc(fn, payload) == [kind |-> "rpc", fn |-> fn, payload |-> payload]
Rejected(code, msg) == [kind |-> "response", code |-> code, msg |-> msg]

\* What addAgreement sends to the store, or its rejection (part_003:42-109).
addAgreement(body) ==
    IF AgreementMissingFields(body)
    THEN Rejected(400, "Missing required fields: productId, consignorId, commissionRate")
    ELSE Rpc("create_agreement_with_details", RpcPayload(body))

\* What updateAgreement sends to the store, or its rejection
\* (part_003:252-313); validId says that req.params.id parses as a number.
\* It has no required-field check.
updateAgreement(validId, body) ==
    IF ~validId THEN Rejected(400, "Invalid agreement ID")
    ELSE Rpc("update_agreement_with_details", RpcPayload(body))

\* The addAgreement of the second agreement controller (part_004:2-70).
addAgreementProgressive(body) ==
    IF AgreementMissingFields(body)
    THEN Rejected(400, "Missing required fields: productId, consignorId, commissionRate")
    ELSE Rpc("create_agreement_with_details", RpcPayload(body))

AddAgreement(body) ==
    /\ call = NoCall
    /\ call' = [op |-> "addAgreement", body |-> body]
    /\ result' = addAgreement(body)
    /\ UNCHANGED <<storeVars, productVars>>

UpdateAgreement(validId, body) ==
    /\ call = NoCall
    /\ call' = [op |-> "updateAgreement", validId |-> validId, body |-> body]
    /\ result' = updateAgreement(validId, body)
    /\ UNCHANGED <<storeVars, productVars>>

AddAgreementProgressive(body) ==
    /\ call = NoCall
    /\ call' = [op |-> "addAgreementProgressive", body |-> body]
    /\ result' = addAgreementProgressive(body)
    /\ UNCHANGED <<storeVars, productVars>>

\* ---------------------------------------------- toCamelCase / toSnakeCase
\* A key is a sequence of characters.  The characters that matter to the two
\* regular expressions: lowercase and uppercase letters, the underscore, and
\* a digit for every other character.
LowerChars == {"a", "b"}
UpperChars == {"A", "B"}
ToUpper == [c \in LowerChars |-> IF c = "a" THEN "A" ELSE "B"]
ToLower == [c \in UpperChars |-> IF c = "A" THEN "a" ELSE "b"]

\* Objects keep their keys in insertion order, as a sequence of
\* <<key, value>> pairs; arrays are sequences.
Obj(fields) == [t |-> "object", fields |-> fields]
Arr(items) == [t |-> "array", items |-> items]

\* !data (part_003:5, 23): undefined, null, 0 and the empty string.
NotData(data) ==
    \/ data.t \in {"undefined", "null"}
    \/ data.t = "number" /\ data.v = 0
    \/ data.t = "string" /\ data.s = ""

\* A faulty variant of the key rewrite, /_(.)/g, which takes the underscore
\* off before any character.
RECURSIVE CamelKey_anyChar(_)
CamelKey_anyChar(key) ==
    IF key = <<>> THEN <<>>
    ELSE IF Len(key) >= 2 /\ key[1] = "_"
    THEN <<IF key[2] \in LowerChars THEN ToUpper[key[2]] ELSE key[2]>>
           \o CamelKey_anyChar(SubSeq(key, 3, Len(key)))
    ELSE <<key[1]>> \o CamelKey_anyChar(Tail(key))

\* key.replace(/_([a-z])/g, g => g[1].toUpperCase()) (part_003:13).
RECURSIVE CamelKey(_)
CamelKey(key) ==
    IF key = <<>> THEN <<>>
    ELSE IF Len(key) >= 2 /\ key[1] = "_" /\ key[2] \in LowerChars
    THEN <<ToUpper[key[2]]>> \o CamelKey(SubSeq(key, 3, Len(key)))
    ELSE <<key[1]>> \o CamelKey(Tail(key))

\* key.replace(/[A-Z]/g, letter => `_${letter.toLowerCase()}`) (part_003:31).
RECURSIVE SnakeKey(_)
SnakeKey(key) ==
    IF key = <<>> THEN <<>>
    ELSE IF key[1] \in UpperChars
    THEN <<"_", ToLower[key[1]]>> \o SnakeKey(Tail(key))
    ELSE <<key[1]>> \o SnakeKey(Tail(key))

\* acc[key] = value: a key already in acc keeps its place and takes the new
\* value (part_003:14, 32).
SetField(acc, key, value) ==
    IF \E i \in 1..Len(acc) : acc[i][1] = key
    THEN [i \in 1..Len(acc) |-> IF acc[i][1] = key THEN <<key, value>> ELSE acc[i]]
    ELSE Append(acc, <<key, value>>)

RECURSIVE toCamelCase(_)
RECURSIVE CamelFields(_, _)
\* Object.keys(data).reduce(...) of toCamelCase (part_003:12-16).
CamelFields(fields, acc) ==
    IF fields = <<>> THEN acc
    ELSE CamelFields(Tail(fields),
                     SetField(acc, CamelKey(Head(fields)[1]), toCamelCase(Head(fields)[2])))

\* toCamelCase (part_003:4-20).
toCamelCase(data) ==
    IF NotData(data) THEN data
    ELSE IF data.t = "array"
    THEN Arr([i \in 1..Len(data.items) |-> toCamelCase(data.items[i])])
    ELSE IF data.t = "object" THEN Obj(CamelFields(data.fields, <<>>))
    ELSE data

RECURSIVE toSnakeCase(_)
RECURSIVE SnakeFields(_, _)
\* Object.keys(data).reduce(...) of toSnakeCase (part_003:30-34).
SnakeFields(fields, acc) ==
    IF fields = <<>> THEN acc
    ELSE SnakeFields(Tail(fields),
                     SetField(acc, SnakeKey(Head(fields)[1]), toSnakeCase(Head(fields)[2])))

\* toSnakeCase (part_003:22-38).
toSnakeCase(data) ==
    IF NotData(data) THEN data
    ELSE IF data.t = "array"
    THEN Arr([i \in 1..Len(data.items) |-> toSnakeCase(data.items[i])])
    ELSE IF data.t = "object" THEN Obj(SnakeFields(data.fields, <<>>))
    ELSE data

\* The keys of the data the helpers are applied to: database columns in
\* underscore_case, request fields in camelCase.
MaxKeyLen == 2
KeysOver(chars) == UNION { [1..n -> chars] : n \in 1..MaxKeyLen }
SnakeKeys == KeysOver(LowerChars \cup {"_", "1"})
CamelKeys == KeysOver(LowerChars \cup UpperChars \cup {"1"})

\* Nested data over a set of keys: values that are no objects, objects of
\* two fields, and objects that hold an array of an object, null and a number.
DataOver(keys) ==
    {JsNull, Num(0), Num(1), Str(""), Str("x"), Obj(<<>>), Arr(<<Num(1), Str("x")>>)}
      \cup { Obj(<< <<k1, Num(1)>>, <<k2, Str("x")>> >>) :
               <<k1, k2>> \in { kk \in keys \X keys : kk[1] # kk[2] } }
      \cup { Obj(<< <<kk[1], Arr(<< Obj(<< <<kk[2], Num(1)>> >>), JsNull, Num(0) >>)>> >>) :
               kk \in keys \X keys }

Returned(data) == [kind |-> "data", data |-> data]

ToCamelCase(data) ==
    /\ call = NoCall
    /\ call' = [op |-> "toCamelCase", data |-> data]
    /\ result' = Returned(toCamelCase(data))
    /\ UNCHANGED <<storeVars, productVars>>

ToSnakeCase(data) ==
    /\ call = NoCall
    /\ call' = [op |-> "toSnakeCase", data |-> data]
    /\ result' = Returned(toSnakeCase(data))
    /\ UNCHANGED <<storeVars, productVars>>

\* ------------------------------------------------------------ errorHandler
\* The errors handed to the global error handler: statusCode (0: not set),
\* message (empty: not set) and stack.
Errors ==
    [statusCode : {0, 400, 500, 503},
     message : {"", "relation commission_tracking does not exist"},
     stack : {"Error at commissionController.js:42"}]

\* errorHandler (part_006:98-114); production says that NODE_ENV is
\* 'production'.  With the headers already sent the error goes to the next
\* handler and this one sends nothing.
errorHandler(production, err, headersSent) ==
    LET statusCode == IF err.statusCode = 0 THEN 500 ELSE err.statusCode
        message == IF err.message = "" THEN "An unexpected error occurred on the server."
                   ELSE err.message
    IN  IF headersSent THEN [kind |-> "next", err |-> err]
        ELSE [kind |-> "response", code |-> statusCode,
              body |-> IF production /\ statusCode = 500
                       THEN [message |-> "Internal Server Error", error |-> Null]
                       ELSE [message |-> message, error |-> Some(err.stack)]]

ErrorHandler(production, err, headersSent) ==
    /\ call = NoCall
    /\ call' = [op |-> "errorHandler", production |-> production, err |-> err,
                headersSent |-> headersSent]
    /\ result' = errorHandler(production, err, headersSent)
    /\ UNCHANGED <<storeVars, productVars>>

\* ------------------------------------------------ getConsignorCommissions
\* An instant is <<year, month, day, t>>: month counts from 0 as in JS, and
\* t is 0 for 00:00:00.000 of the day and 1 for a later time of that day.
LeapYear(y) == (y % 4 = 0 /\ y % 100 # 0) \/ y % 400 = 0

DaysInMonth(y, m) ==
    IF m = 1 THEN (IF LeapYear(y) THEN 29 ELSE 28)
    ELSE IF m \in {3, 5, 8, 10} THEN 30 ELSE 31

\* a is not later than b.
NotAfter(a, b) ==
    \/ a[1] < b[1]
    \/ a[1] = b[1] /\ a[2] < b[2]
    \/ a[1] = b[1] /\ a[2] = b[2] /\ a[3] < b[3]
    \/ a[1] = b[1] /\ a[2] = b[2] /\ a[3] = b[3] /\ a[4] <= b[4]

\* new Date(y, m, d): midnight of the day, with month -1 the December before
\* and day 0 the last day of the month before.
NewDate(y, m, d) ==
    LET yy == IF m < 0 THEN y - 1 ELSE y
        mm == IF m < 0 THEN m + 12 ELSE m
    IN  IF d # 0 THEN <<yy, mm, d, 0>>
        ELSE IF mm = 0 THEN <<yy - 1, 11, 31, 0>>
        ELSE <<yy, mm - 1, DaysInMonth(yy, mm - 1), 0>>

\* The window <<startDate, endDate>> of the request (part_006:14-28).
DateWindow(dateRange, now) ==
    IF dateRange = "this-year" THEN <<NewDate(now[1], 0, 1), now>>
    ELSE IF dateRange = "last-month"
    THEN <<NewDate(now[1], now[2] - 1, 1), NewDate(now[1], now[2], 0)>>
    ELSE <<NewDate(now[1], 0, 1), now>>

\* The sale lines the query returns (part_006:31-48): those whose sale lies
\* in the window, in the order the store gives them.
InWindow(line, window) ==
    NotAfter(window[1], line.sale_date) /\ NotAfter(line.sale_date, window[2])

CommissionLines(lines, window) == SelectSeq(lines, LAMBDA line : InWindow(line, window))

\* The two checks that skip a line (part_006:59-72).  The inner joins give
\* every line its product and consignor; a value the store does not have
\* arrives as null.
SkippedLine(line) ==
    \/ line.consignor.full_name.t \in {"null", "undefined"}
    \/ line.consignor.id = 0
    \/ line.commission_rate.t = "undefined"
    \/ line.line_total.t = "undefined"

\* The entry of consignor id in the map, as a set of positions.
EntryOf(map, id) == { k \in 1..Len(map) : map[k].id = id }

\* A faulty variant of the step, which shows the rate of every line it adds.
AddLine_overwritesRate(map, line) ==
    LET id == line.consignor.id
        created == IF EntryOf(map, id) # {} THEN map
                   ELSE Append(map, [id |-> id,
                                     consignorName |-> line.consignor.full_name,
                                     totalSales |-> 0,
                                     commissionRate |-> line.commission_rate,
                                     commissionAmount |-> 0])
        k == CHOOSE j \in EntryOf(created, id) : TRUE
    IN  [created EXCEPT
           ![k].totalSales = @ + line.line_total.v,
           ![k].commissionRate = line.commission_rate,
           ![k].commissionAmount = @ + line.line_total.v * line.commission_rate.v]

\* One line added to the map (part_006:74-86); null counts 0 in the sums.
AddLine(map, line) ==
    LET id == line.consignor.id
        created == IF EntryOf(map, id) # {} THEN map
                   ELSE Append(map, [id |-> id,
                                     consignorName |-> line.consignor.full_name,
                                     totalSales |-> 0,
                                     commissionRate |-> line.commission_rate,
                                     commissionAmount |-> 0])
        k == CHOOSE j \in EntryOf(created, id) : TRUE
    IN  [created EXCEPT
           ![k].totalSales = @ + line.line_total.v,
           ![k].commissionAmount = @ + line.line_total.v * line.commission_rate.v]

\* The aggregation over the lines, from an empty map (part_006:56-87).
RECURSIVE Aggregate(_, _)
Aggregate(map, lines) ==
    IF lines = <<>> THEN map
    ELSE Aggregate(IF SkippedLine(Head(lines)) THEN map ELSE AddLine(map, Head(lines)),
                   Tail(lines))

\* The handler (part_006:9-95): a failed query goes to the error handler.
getConsignorCommissions(dateRange, now, lines, ok) ==
    IF ~ok THEN [kind |-> "next", err |-> [statusCode |-> 0,
                                           message |-> "Error fetching sales data",
                                           stack |-> "Error at reportController.js:52"]]
    ELSE [kind |-> "response", code |-> 200,
          body |-> Aggregate(<<>>, CommissionLines(lines, DateWindow(dateRange, now)))]

GetConsignorCommissions(dateRange, now, lines, ok) ==
    /\ call = NoCall
    /\ call' = [op |-> "getConsignorCommissions", dateRange |-> dateRange, now |-> now,
                lines |-> lines, ok |-> ok]
    /\ result' = getConsignorCommissions(dateRange, now, lines, ok)
    /\ UNCHANGED <<storeVars, productVars>>

\* The longest list of sale lines a request is studied over.
MaxRows == 2

\* The requests studied: the date ranges at several moments over single
\* sales of each date, and the sale lines of one window in every order.
DateRanges == {"this-year", "last-month", "none"}
Nows == {<<2025, 0, 15, 1>>, <<2025, 2, 31, 1>>, <<2024, 2, 1, 0>>}
Today == <<2025, 2, 31, 1>>

ReportConsignors ==
    {[id |-> 7, full_name |-> Str("Ann")], [id |-> 8, full_name |-> Str("Bob")],
     [id |-> 9, full_name |-> JsNull]}
Rates == {JsNull, Num(1), Num(2)}
Totals == {JsNull, Num(1), Num(2)}

SaleDates ==
    {<<2023, 11, 31, 1>>, <<2024, 0, 1, 0>>, <<2024, 0, 31, 1>>, <<2024, 1, 1, 0>>,
     <<2024, 1, 29, 0>>, <<2024, 1, 29, 1>>, <<2024, 2, 1, 0>>,
     <<2024, 11, 1, 0>>, <<2024, 11, 31, 0>>, <<2024, 11, 31, 1>>, <<2025, 0, 1, 0>>,
     <<2025, 0, 15, 1>>, <<2025, 1, 1, 0>>, <<2025, 1, 28, 0>>, <<2025, 1, 28, 1>>,
     <<2025, 2, 1, 0>>, <<2025, 2, 31, 1>>}

Line(consignor, rate, total, date) ==
    [consignor |-> consignor, commission_rate |-> rate, line_total |-> total,
     sale_date |-> date]

SaleLines == { Line(c, rate, total, <<2025, 1, 1, 0>>) :
               c \in ReportConsignors, rate \in Rates, total \in Totals }

RECURSIVE SeqsUpTo(_, _)
SeqsUpTo(S, n) ==
    IF n = 0 THEN {<<>>}
    ELSE LET shorter == SeqsUpTo(S, n - 1)
         IN  shorter \cup { Append(s, x) : s \in { t \in shorter : Len(t) = n - 1 }, x \in S }

DatedRequests ==
    { <<dateRange, now, <<Line([id |-> 7, full_name |-> Str("Ann")], Num(1), Num(1), d)>>, TRUE>> :
      dateRange \in DateRanges, now \in Nows, d \in SaleDates }

LineRequests ==
    { <<"this-year", Today, lines, ok>> : lines \in SeqsUpTo(SaleLines, MaxRows), ok \in BOOLEAN }

ReportRequests == DatedRequests \cup LineRequests

\* ------------------------------------------------------ get-by-id handlers
\* What a .single() query answers: its one row, the error PGRST116 when no
\* row matches, or another store error.
SingleOutcomes == {"row", "PGRST116", "error"}

Answer(code, msg) == [kind |-> "response", code |-> code, msg |-> msg]

\* getConsignorById (productController.js:65-98, part_001:168-203).
getConsignorById(validId, outcome) ==
    IF ~validId THEN Answer(400, "Invalid consignor ID provided.")
    ELSE IF outcome = "PGRST116" THEN Answer(404, "Consignor not found.")
    ELSE IF outcome = "error" THEN Answer(500, "Error fetching consignor from database")
    ELSE Answer(200, "consignor")

\* getProductByBarcode (productController.js:213-256, part_001:329-374).
getProductByBarcode(hasBarcode, outcome) ==
    IF ~hasBarcode THEN Answer(400, "Barcode is required.")
    ELSE IF outcome = "PGRST116" THEN Answer(404, "Product not found.")
    ELSE IF outcome = "error"
    THEN Answer(500, "Error fetching product by barcode from database")
    ELSE Answer(200, "product")

\* getAgreementById of the agreement controller with products and consignors
\* (part_005:106-143).
getAgreementById(validId, outcome) ==
    IF ~validId THEN Answer(400, "Invalid agreement ID provided.")
    ELSE IF outcome = "PGRST116" THEN Answer(404, "Agreement not found.")
    ELSE IF outcome = "error" THEN Answer(500, "Error fetching agreement from database")
    ELSE Answer(200, "agreement")

\* getAgreementById of the agreement controller with discounts and charity
\* (part_003:210-249): every error of the query is thrown to the catch block.
getAgreementByIdWithDiscounts(validId, outcome) ==
    IF ~validId THEN Answer(400, "Invalid agreement ID")
    ELSE IF outcome # "row" THEN Answer(500, "Internal server error")
    ELSE Answer(200, "agreement")

GetByIdHandlers ==
    {"getConsignorById", "getProductByBarcode", "getAgreementById",
     "getAgreementByIdWithDiscounts"}

GetById(handler, valid, outcome) ==
    /\ call = NoCall
    /\ call' = [op |-> handler, valid |-> valid, outcome |-> outcome]
    /\ result' = CASE handler = "getConsignorById" -> getConsignorById(valid, outcome)
                   [] handler = "getProductByBarcode" -> getProductByBarcode(valid, outcome)
                   [] handler = "getAgreementById" -> getAgreementById(valid, outcome)
                   [] handler = "getAgreementByIdWithDiscounts" ->
                          getAgreementByIdWithDiscounts(valid, outcome)
    /\ UNCHANGED <<storeVars, productVars>>

\* The calls are studied over an empty store with no commission request in
\* flight, one call in each behaviour: the handlers and helpers keep no state
\* between calls.
CallInit ==
    /\ sale_items = {}
    /\ commission_tracking = {}
    /\ commission_items = {}
    /\ commission_payments = {}
    /\ nextTrackingId = 1
    /\ pc = [r \in Reqs |-> "idle"]
    /\ arg = [r \in Reqs |-> NoArg]
    /\ loc = [r \in Reqs |-> NoLoc]
    /\ clean = TRUE
    /\ reported = NoReports
    /\ call = NoCall
    /\ result = NoResult
    /\ products = {}
    /\ product_locations = {}

\* The inputs a call may take: any of S while no call has been made.
Inputs(S) == IF call = NoCall THEN S ELSE {}

SnakeData == DataOver(SnakeKeys)
CamelData == DataOver(CamelKeys)

CallNext ==
    \/ \E body \in Inputs(AgreementBodies) : AddAgreement(body)
    \/ \E validId \in BOOLEAN, body \in Inputs(AgreementBodies) : UpdateAgreement(validId, body)
    \/ \E body \in Inputs(AgreementBodies) : AddAgreementProgressive(body)
    \/ \E data \in Inputs(SnakeData) : ToCamelCase(data)
    \/ \E data \in Inputs(CamelData) : ToSnakeCase(data)
    \/ \E production \in BOOLEAN, err \in Inputs(Errors), headersSent \in BOOLEAN :
           ErrorHandler(production, err, headersSent)
    \/ \E q \in Inputs(ReportRequests) : GetConsignorCommissions(q[1], q[2], q[3], q[4])
    \/ \E handler \in Inputs(GetByIdHandlers), valid \in BOOLEAN, outcome \in SingleOutcomes :
           GetById(handler, valid, outcome)

CallSpec == CallInit /\ [][CallNext]_vars


\* ====================================================================
\* Properties of the commission and payment handlers
\* ====================================================================

\* Payment rows recorded for a tracking id.
PaymentsFor(id) == { p \in commission_payments : p.commission_tracking_id = id }

\* C1: for every commission_tracking record and every submitted amount, with
\* the other fields supplied and no store failure, recordPayment succeeds
\* exactly when the record's status is pending or calculated and the amount
\* equals its total_commission; and after a success the record is paid and
\* exactly one payment row exists for it.  The request passes its checks
\* exactly when PayFetchResponse is Continue, and then succeeds when its two
\* writes do; the second half is read in runs without failures or overlap.
C1_PaysExactlyWhenPayableAndEqual ==
    /\ \A t \in commission_tracking : \A amount \in Amounts :
         (PayFetchResponse(t.id, amount, TRUE, TRUE) = Continue)
           <=> (/\ t.status \in {"pending", "calculated"}
                /\ amount.t = "number"
                /\ amount.v = t.total_commission)
    /\ \A r \in Reqs :
         (clean /\ pc[r] = "payUpdate") =>
             /\ \A t \in MarkPaid(arg[r].id) : t.id = arg[r].id => t.status = "paid"
             /\ PayUpdateResponse(r, TRUE).code = 201
             /\ Cardinality(PaymentsFor(arg[r].id)) = 1

\* C2: every commission_tracking record whose status is paid has exactly one
\* commission_payments row.
C2_PaidHasExactlyOnePayment ==
    \A t \in commission_tracking :
        t.status = "paid" => Cardinality(PaymentsFor(t.id)) = 1

\* C3: at most one commission_tracking record exists for any
\* (consignor_id, period_start, period_end).
C3_AtMostOneRecordPerTriple ==
    \A k \in Keys : Cardinality(LookupTracking(k[1], k[2][1], k[2][2])) <= 1

\* The (consignor, period) key of the report request in slot r.
ReportKey(r) == <<arg[r].consignor_id, <<arg[r].period_start, arg[r].period_end>>>>

\* The report request in slot r is on the creation path and has inserted its
\* tracking row.
Created(r) ==
    /\ pc[r] \in {"reportInsertItems", "reportCompensate", "reportFetchPayments"}
    /\ loc[r].saleItems # {}

\* C4: two successive report calls with identical arguments and no store
\* failure return the same tracking id, and the second call inserts no
\* commission_tracking row and no commission_items row.  reported[k] is the id
\* the earlier call returned: from then on the lookup for k finds that one
\* row, a later call for k takes the reload path and answers with that id,
\* and no step of it changes the two tables.
C4_State ==
    /\ \A k \in Keys :
         (clean /\ reported[k] # 0) =>
             /\ ReportLookupResponse(k[1], k[2], TRUE, TRUE) = Continue
             /\ \A t \in LookupTracking(k[1], k[2][1], k[2][2]) : t.id = reported[k]
             /\ LookupTracking(k[1], k[2][1], k[2][2]) # {}
    /\ \A r \in Reqs :
         (clean /\ ReportKey(r) \in Keys /\ reported[ReportKey(r)] # 0) =>
             /\ pc[r] \in {"reportReloadItems", "reportFetchPayments"}
             /\ pc[r] = "reportReloadItems" =>
                    ReportReloadItemsResponse(r, TRUE) = Continue
             /\ pc[r] = "reportFetchPayments" =>
                    /\ ReportFetchPaymentsResponse(r, TRUE).code = 200
                    /\ ReportFetchPaymentsResponse(r, TRUE).body.tracking.id
                         = reported[ReportKey(r)]

C4_Step ==
    \A r \in Reqs :
        (/\ clean /\ clean'
         /\ pc'[r] # pc[r]
         /\ \/ ReportKey(r) \in Keys /\ reported[ReportKey(r)] # 0
            \/ ReportKey(r)' \in Keys /\ reported[ReportKey(r)'] # 0)
        => UNCHANGED <<commission_tracking, commission_items>>

C4_SecondCallReturnsSameIdInsertsNothing == [](C4_State) /\ [][C4_Step]_vars

C4_Witness ==
    /\ clean
    /\ \E r \in Reqs :
         /\ pc[r] = "reportFetchPayments"
         /\ reported[ReportKey(r)] # 0
         /\ ReportFetchPaymentsResponse(r, TRUE).body.tracking.id = reported[ReportKey(r)]

\* The sale items of consignor c whose sale falls in the period.
MatchingSaleItems(c, ps, pe) ==
    { s \in sale_items : s.consignor_id = c /\ ps <= s.sale_date /\ s.sale_date <= pe }

\* C5: for a (consignor, period) with zero matching sale items and no existing
\* tracking record, the report request answers "no sales" with a null report
\* and leaves the three tables unchanged.  A request that awaits its sale-items
\* query found no record; it leaves the tables alone exactly when the query
\* step answers NoSales.
C5_NoMatchingSalesNoRecord ==
    \A r \in Reqs :
        (/\ pc[r] = "reportQuerySales"
         /\ MatchingSaleItems(arg[r].consignor_id, arg[r].period_start,
                              arg[r].period_end) = {})
        => ReportQuerySalesResponse(r, TRUE) = NoSales

\* The sum of f over the finite set S.
RECURSIVE FnSum(_, _)
FnSum(f, S) ==
    IF S = {} THEN 0
    ELSE LET x == CHOOSE y \in S : TRUE IN f[x] + FnSum(f, S \ {x})

ItemsFor(id) == { i \in commission_items : i.commission_tracking_id = id }

\* C6: when a report request creates a record from a non-empty set of sale
\* items, the stored and returned total_commission is the sum of the items'
\* commission fields (null counts 0) and total_sales the sum of their
\* line_total fields, the record has status pending and paid_amount 0, and
\* exactly one commission_items row is inserted per contributing sale item.
C6_CreatedRecordSums ==
    \A r \in Reqs :
        Created(r) =>
            LET S == loc[r].saleItems
                created == TheRow(loc[r].tracking)
            IN  /\ created.total_commission =
                     FnSum([s \in S |-> IF s.commission = Null THEN 0 ELSE s.commission[1]], S)
                /\ created.total_sales = FnSum([s \in S |-> s.line_total], S)
                /\ created.status = "pending"
                /\ created.paid_amount = 0
                /\ clean => created \in commission_tracking
                /\ pc[r] = "reportFetchPayments" =>
                     /\ ReportFetchPaymentsResponse(r, TRUE).body.tracking = created
                     /\ Cardinality(ItemsFor(created.id)) = Cardinality(S)
                     /\ \A s \in S :
                          Cardinality({ i \in ItemsFor(created.id) :
                                          /\ i.sale_item_id = s.id
                                          /\ i.sale_amount = s.line_total
                                          /\ i.commission_amount = s.commission }) = 1

C6_Witness ==
    /\ clean
    /\ \E r \in Reqs :
         /\ Created(r)
         /\ pc[r] = "reportFetchPayments"
         /\ Cardinality(loc[r].saleItems) = 2

\* C7: when the commission_items batch insert fails, then once the request
\* has completed the just-created tracking row no longer exists and the
\* request is answered with a failure.
C7_FailedItemsInsertLeavesNoRow ==
    [][\A r \in Reqs :
         (pc[r] = "reportCompensate" /\ pc'[r] = "idle") =>
             /\ ~\E t \in commission_tracking' : t.id = TheRow(loc[r].tracking).id
             /\ \A ok \in BOOLEAN : ReportCompensateResponse(r, ok).code = 500]_vars

\* C8: a tracking row and its item rows are created atomically: while a
\* report request has inserted its tracking row and not yet its items, no
\* other request can observe the row (lookup, unpaid list, details, verify)
\* or pay it.
C8_NoRowVisibleBeforeItsItems ==
    \A r \in Reqs :
        pc[r] = "reportInsertItems" =>
            LET t == TheRow(loc[r].tracking)
            IN  /\ \A u \in LookupTracking(t.consignor_id, t.period_start, t.period_end) :
                     u.id # t.id
                /\ \A u \in UnpaidResponse(TRUE).body.rows : u.id # t.id
                /\ DetailsHeaderResponse(t.id, TRUE).code = 404
                /\ VerifyResponse(t.id, TRUE).code = 404
                /\ PayFetchResponse(t.id, Num(t.total_commission), TRUE, TRUE) # Continue

\* C9: once a tracking record has status paid it keeps status paid and stays
\* in the store in every later state, whatever the interleaving (the
\* compensating delete included); so the transition to paid happens at most
\* once per record.
C9_PaidStaysPaidAndPresent ==
    [][\A t \in commission_tracking :
         t.status = "paid" =>
             \E u \in commission_tracking' : u.id = t.id /\ u.status = "paid"]_vars

\* C10: recordPayment is the only operation that modifies an existing
\* tracking row: a report request on an existing triple, verify, details and
\* the unpaid and paid listings leave every tracking, item and payment row
\* unchanged.  A request that answers from its first store call leaves pc as
\* it is; the reload path and details are recognised by the call they await;
\* and a tracking row changes only by the status update of a payment.
C10_Step ==
    /\ pc' = pc => UNCHANGED tables
    /\ \A r \in Reqs :
         (/\ pc'[r] # pc[r]
          /\ pc[r] \in {"idle", "reportReloadItems", "detailsItems", "detailsPayment"}
                \/ (pc[r] = "reportFetchPayments" /\ ~Created(r)))
         => UNCHANGED tables
    /\ \A t \in commission_tracking : \A u \in commission_tracking' :
         (u.id = t.id /\ u # t) =>
             \E r \in Reqs : pc[r] = "payUpdate" /\ pc'[r] = "idle" /\ arg[r].id = t.id

C10_OnlyPaymentModifiesRows == [][C10_Step]_vars

C10_Witness ==
    /\ \E t \in commission_tracking : t.status = "paid"
    /\ commission_payments # {}
    /\ commission_items # {}
    /\ \E r \in Reqs : pc[r] = "reportFetchPayments" /\ ~Created(r)

\* C11: once a tracking record exists for a triple, every later report call
\* for the triple returns the total_sales, the total_commission and the set
\* of commission items stored for the record at its creation, whatever has
\* happened to the consignor's sale items in between.  A call on the reload
\* path is about to answer: the record it returns is in the store with those
\* totals, and the items it returns are the record's stored items.
C11_LaterCallsReturnStoredReport ==
    \A r \in Reqs :
        (pc[r] = "reportFetchPayments" /\ ~Created(r)) =>
            LET body == ReportFetchPaymentsResponse(r, TRUE).body
            IN  /\ \E t \in commission_tracking :
                     /\ t.id = body.tracking.id
                     /\ t.total_sales = body.tracking.total_sales
                     /\ t.total_commission = body.tracking.total_commission
                /\ body.commission_items = ItemsFor(body.tracking.id)

\* C12: verify classifies every tracking id: no such record is answered 404
\* not found, never as unpayable; status pending or calculated is answered
\* payable; status paid is rejected as already paid; any other status is
\* rejected as unpayable, naming the value; and verify never changes the
\* store.
C12_Classification ==
    \A id \in TrackingIds :
        LET v == VerifyResponse(id, TRUE)
        IN  /\ TrackingById(id) = {} =>
                 v.code = 404 /\ v.msg = "Commission not found"
            /\ \A t \in TrackingById(id) :
                 /\ t.status \in {"pending", "calculated"} =>
                        /\ v.code = 200
                        /\ v.body.commission_id = id
                        /\ v.body.total_commission = t.total_commission
                 /\ t.status = "paid" =>
                        v.code = 400 /\ v.msg = "Commission has already been paid"
                 /\ t.status \notin {"pending", "calculated", "paid"} =>
                        /\ v.code = 400
                        /\ v.msg = "Commission is in an unpayable status"
                        /\ v.body.status = t.status

C12_Step ==
    (\E r \in Reqs, id \in TrackingIds, ok \in BOOLEAN : Verify(r, id, ok))
        => UNCHANGED <<sale_items, tables, nextTrackingId>>

C12_VerifyClassifiesAndReadsOnly == [](C12_Classification) /\ [][C12_Step]_vars

C12_Witness ==
    /\ \E t \in commission_tracking : t.status \notin {"pending", "calculated", "paid"}
    /\ \E id \in TrackingIds :
         TrackingById(id) = {} /\ VerifyResponse(id, TRUE).code = 404
    /\ \E id \in TrackingIds :
         /\ VerifyResponse(id, TRUE).code = 400
         /\ VerifyResponse(id, TRUE).msg = "Commission is in an unpayable status"
    /\ \E r \in Reqs : pc[r] = "detailsItems"

\* The amounts a request can supply: every value of the amount field but its
\* absence.
SuppliedAmounts == Amounts \ {Undefined}

\* C13: recordPayment with all required fields supplied, on a tracking id
\* that does not exist or whose record is already paid, with the lookup
\* succeeding, is rejected with the not-found / already-paid response and
\* never with a 500; it inserts no payment row and leaves the status as it
\* is.  A request that is answered from PayFetch writes nothing.
C13_AbsentOrPaidIsRejectedAsNotFound ==
    \A id \in TrackingIds : \A amount \in SuppliedAmounts :
        (TrackingById(id) = {} \/ \E t \in TrackingById(id) : t.status = "paid") =>
            /\ Sent(PayFetchResponse(id, amount, TRUE, TRUE))
            /\ PayFetchResponse(id, amount, TRUE, TRUE).code # 500
            /\ PayFetchResponse(id, amount, TRUE, TRUE).code = 404
            /\ PayFetchResponse(id, amount, TRUE, TRUE).msg
                 = "Commission not found or already paid"

\* ====================================================================
\* Properties of the agreement writes and helper calls
\* ====================================================================

AgreementPolicies == {Str("keep"), Str("return"), Str("donate")}

C15_RoundTrip ==
    /\ call.op = "toCamelCase" => toSnakeCase(result.data) = call.data
    /\ call.op = "toSnakeCase" => toCamelCase(result.data) = call.data
    /\ call.op \in {"toCamelCase", "toSnakeCase"} =>
         /\ result.data.t = call.data.t
         /\ call.data.t = "object" =>
              /\ Len(result.data.fields) = Len(call.data.fields)
              /\ \A i, j \in 1..Len(result.data.fields) :
                   i # j => result.data.fields[i][1] # result.data.fields[j][1]
              /\ \A i \in 1..Len(result.data.fields) :
                   result.data.fields[i][2].t = call.data.fields[i][2].t
         /\ call.data.t \notin {"object", "array"} => result.data = call.data

C15_Witness ==
    /\ call.op = "toCamelCase"
    /\ call.data.t = "object"
    /\ Len(call.data.fields) = 2
    /\ \A i \in 1..2 : result.data.fields[i][1] # call.data.fields[i][1]
    /\ toSnakeCase(result.data) = call.data

\* C16: with the production flag set, the response of the global error
\* handler never contains internal detail (the error's stack or its internal
\* message), for every error and every status code it carries; in all modes
\* the response is a JSON object with a message.
C16_ProductionHidesInternalDetail ==
    (call.op = "errorHandler" /\ result.kind = "response") =>
        /\ result.body.message # ""
        /\ call.production =>
             /\ result.body.error = Null
             /\ call.err.message # "" => result.body.message # call.err.message


\* C17: the sale items that contribute to a newly created report are exactly
\* the consignor's sale items whose sale date d satisfies period_start <= d <=
\* period_end: the rows a request's sale-items query hands to the sums and to
\* the commission_items insert are those of MatchingSaleItems, no item dated
\* outside the period and no item of another consignor among them.
C17_ContributingItemsAreThoseInPeriod ==
    \A r \in Reqs :
        pc[r] = "reportQuerySales" =>
            { s.id : s \in QueriedSaleItems(r) } =
            { s.id : s \in MatchingSaleItems(arg[r].consignor_id,
                                             arg[r].period_start, arg[r].period_end) }


MissingFieldsResponse == Response(400, "Missing required fields", NoBody)
NotFoundOrPaid == Response(404, "Commission not found or already paid", NoBody)

\* C18: recordPayment checks its preconditions in a fixed order.  A request
\* that lacks one of the four required fields gets the validation error
\* whatever the record's state; a request that supplies all four, for a
\* record that is absent or not payable, gets the not-found / already-paid
\* rejection whatever the amount; the amount-mismatch error is returned only
\* for an existing record in status pending or calculated.
C18_PreconditionsInOrder ==
    \A id \in TrackingIds : \A amount \in Amounts : \A complete \in BOOLEAN :
        LET commission == TrackingById(id)
            response == PayFetchResponse(id, amount, complete, TRUE)
        IN  /\ (~complete \/ amount = Undefined) => response = MissingFieldsResponse
            /\ (/\ complete
                /\ amount # Undefined
                /\ \A t \in commission : ~Payable(t.status))
               => response = NotFoundOrPaid
            /\ response.msg = "Payment amount must match commission amount"
               => \E t \in commission : Payable(t.status)


RecordingFailed == Response(500, "Error recording payment", NoBody)
UpdateFailed ==
    Response(500, "Payment inserted but failed to update commission status", NoBody)

\* A request leaves payInsert for idle only when its insert failed, and in a
\* run that was clean a step that ends it is a failed store call.
C19_Step ==
    \A r \in Reqs :
        /\ (pc[r] = "payInsert" /\ pc'[r] = "idle") =>
             /\ commission_payments' = commission_payments
             /\ commission_tracking' = commission_tracking
             /\ PayInsertResponse(r, FALSE) = RecordingFailed
             /\ clean => { p \in commission_payments' :
                             p.commission_tracking_id = arg[r].id } = {}
        /\ (pc[r] = "payUpdate" /\ pc'[r] = "idle") =>
             /\ TheRow(loc[r].payment) \in commission_payments'
             /\ PayUpdateResponse(r, FALSE) = UpdateFailed
             /\ UpdateFailed # RecordingFailed
             /\ (clean /\ ~clean') =>
                  /\ commission_tracking' = commission_tracking
                  /\ \E t \in commission_tracking' :
                       t.id = arg[r].id /\ Payable(t.status)

\* C19: the two writes of recordPayment fail distinguishably.  If the payment
\* insert fails, no payment row is written, the status is unchanged and the
\* response is the "Error recording payment" failure; if the insert succeeds
\* and the status update fails, the payment row remains, the tracking status
\* stays at its previous payable value, and the response is the failure
\* "Payment inserted but failed to update commission status", not a success.
C19_WritesFailDistinguishably == [][C19_Step]_vars

\* The state a failed status update leaves: a payment row for a record that
\* is still payable, the request over.
C19_Witness ==
    /\ ~clean
    /\ \A r \in Reqs : pc[r] = "idle"
    /\ \E t \in commission_tracking :
         Payable(t.status) /\ PaymentsFor(t.id) # {}


\* A payment of record id has completed successfully: in a run without a
\* failed store call and without overlapping requests, its payment row is
\* stored and no request awaits the status update of the record.
PaymentCompleted(id) ==
    /\ clean
    /\ PaymentsFor(id) # {}
    /\ \A r \in Reqs : ~(pc[r] = "payUpdate" /\ arg[r].id = id)

\* C20: verify-then-pay race.  Once another client's recordPayment for a
\* record has completed successfully, the record stands in status paid, a
\* verify no longer reports it payable, and a recordPayment that begins for
\* it, whatever verify reported earlier, does not reach the payment insert:
\* a request that supplies the four fields with the record's commission as
\* amount is rejected by the status check of recordPayment itself.
C20_PaidRecordIsRejectedByRecheck ==
    \A id \in TrackingIds :
        /\ PaymentCompleted(id) =>
             \E t \in TrackingById(id) : t.status = "paid"
        /\ \A t \in TrackingById(id) :
             t.status = "paid" =>
                 /\ VerifyResponse(id, TRUE).code = 400
                 /\ \A amount \in Amounts : \A complete, ok \in BOOLEAN :
                      PayFetchResponse(id, amount, complete, ok) # Continue
                 /\ PaymentCompleted(id) =>
                      PayFetchResponse(id, Num(t.total_commission), TRUE, TRUE)
                          = NotFoundOrPaid

\* Another client's payment of a record has completed and a further
\* recordPayment for it may begin.
C20_Witness ==
    \E id \in TrackingIds :
        /\ PaymentCompleted(id)
        /\ Cardinality(PaymentsFor(id)) = 1
        /\ \E t \in TrackingById(id) : t.status = "paid"
        /\ \A r \in Reqs : pc[r] = "idle"


\* ====================================================================
\* Properties of the details, listings and verification
\* ====================================================================

\* C21: GET /commissions/:id/details returns a non-null payment if and only
\* if the tracking record's status is paid, in every reachable state: a
\* details request that answers with the record answers a payment exactly
\* when the header it read is paid.
C21_PaymentIffPaid ==
    \A r \in Reqs : \A ok \in BOOLEAN :
        /\ pc[r] = "detailsItems" =>
             LET response == DetailsItemsResponse(r, ok)
             IN  response.code = 200 =>
                     /\ response.body.header.status # "paid"
                     /\ response.body.payment = {}
        /\ pc[r] = "detailsPayment" =>
             LET response == DetailsPaymentResponse(r, ok)
             IN  response.code = 200 =>
                     /\ response.body.header.status = "paid"
                     /\ response.body.payment # {}


\* The response ends the request with an error.
ErrorSent(response) == response.code >= 400

\* C22: in commission operations every failed store call (lookup, sale-item
\* query, insert, item reload, payment fetch, status update) ends the request
\* at once with an error response: after the failure no further store call is
\* made, the compensating delete of the report request excepted, and no
\* success response is sent.
C22_FailedCallEndsRequest ==
    /\ \A c \in Consignors : \A p \in Periods :
         ErrorSent(ReportLookupResponse(c, p, TRUE, FALSE))
    /\ \A id \in TrackingIds :
         /\ ErrorSent(VerifyResponse(id, FALSE))
         /\ ErrorSent(DetailsHeaderResponse(id, FALSE))
         /\ \A amount \in Amounts : ErrorSent(PayFetchResponse(id, amount, TRUE, FALSE))
    /\ ErrorSent(UnpaidResponse(FALSE)) /\ ErrorSent(PaidResponse(FALSE))
    /\ \A r \in Reqs :
         /\ pc[r] = "reportQuerySales" => ErrorSent(ReportQuerySalesResponse(r, FALSE))
         /\ pc[r] = "reportInsertTracking" => ErrorSent(ReportInsertTrackingResponse(r, FALSE))
         /\ pc[r] = "reportCompensate" =>
              \A ok \in BOOLEAN : ErrorSent(ReportCompensateResponse(r, ok))
         /\ pc[r] = "reportReloadItems" => ErrorSent(ReportReloadItemsResponse(r, FALSE))
         /\ pc[r] = "reportFetchPayments" => ErrorSent(ReportFetchPaymentsResponse(r, FALSE))
         /\ pc[r] = "payInsert" => ErrorSent(PayInsertResponse(r, FALSE))
         /\ pc[r] = "payUpdate" => ErrorSent(PayUpdateResponse(r, FALSE))
         /\ pc[r] = "detailsItems" => ErrorSent(DetailsItemsResponse(r, FALSE))
         /\ pc[r] = "detailsPayment" => ErrorSent(DetailsPaymentResponse(r, FALSE))


\* ====================================================================
\* Properties of the report aggregator
\* ====================================================================

\* The lines of the answered request that the aggregation processed, in
\* order: those in the window that were not skipped.
ProcessedLines ==
    SelectSeq(CommissionLines(call.lines, DateWindow(call.dateRange, call.now)),
              LAMBDA line : ~SkippedLine(line))

\* The processed lines of consignor id.
LinesOf(id) == SelectSeq(ProcessedLines, LAMBDA line : line.consignor.id = id)

Answered == call.op = "getConsignorCommissions" /\ result.kind = "response"

CompleteLine(line) ==
    /\ line.consignor.id # 0
    /\ line.consignor.full_name.t = "string"
    /\ line.commission_rate.t = "number"
    /\ line.line_total.t = "number"

\* The complete rows of consignor id among the rows the query returned.
CompleteLinesOf(id) ==
    SelectSeq(CommissionLines(call.lines, DateWindow(call.dateRange, call.now)),
              LAMBDA line : CompleteLine(line) /\ line.consignor.id = id)

RECURSIVE SeqSum(_, _)
SeqSum(f(_), s) == IF s = <<>> THEN 0 ELSE f(Head(s)) + SeqSum(f, Tail(s))

LineTotal(line) == line.line_total.v
LineCommission(line) == line.line_total.v * line.commission_rate.v

\* C24: the aggregator returns exactly one entry per distinct consignor id
\* that has at least one complete row; its totalSales is the sum of
\* line_total and its commissionAmount the sum of line_total x
\* commission_rate over that consignor's complete rows; a row missing its
\* consignor data, its rate or its total contributes to no total, creates no
\* entry by itself and does not abort the request.
C24_OneEntryPerConsignorWithSums ==
    (call.op = "getConsignorCommissions" /\ call.ok) =>
        /\ result.kind = "response"
        /\ \A j, k \in 1..Len(result.body) :
             result.body[j].id = result.body[k].id => j = k
        /\ { result.body[k].id : k \in 1..Len(result.body) }
             = { c.id : c \in { d \in ReportConsignors : CompleteLinesOf(d.id) # <<>> } }
        /\ \A k \in 1..Len(result.body) :
             /\ result.body[k].totalSales = SeqSum(LineTotal, CompleteLinesOf(result.body[k].id))
             /\ result.body[k].commissionAmount
                  = SeqSum(LineCommission, CompleteLinesOf(result.body[k].id))


\* The <<year, month>> before the month of now.
PreviousMonth(now) == IF now[2] = 0 THEN <<now[1] - 1, 11>> ELSE <<now[1], now[2] - 1>>

\* The window the date range stands for: for last-month every instant of the
\* previous calendar month, otherwise January 1 of the current year up to now.
InStatedWindow(date, dateRange, now) ==
    IF dateRange = "last-month" THEN <<date[1], date[2]>> = PreviousMonth(now)
    ELSE NotAfter(<<now[1], 0, 1, 0>>, date) /\ NotAfter(date, now)

\* C25: date-window resolution.  For dateRange last-month the window contains
\* every instant of every calendar day of the previous month, from its first
\* day through its last day, and no instant of another month, also when the
\* current month is January; for this-year and for any other or missing
\* value the window is January 1 of the current year up to now.  A sale
\* counts in the answer exactly when its date lies in that window.
C25_WindowIsTheStatedOne ==
    (Answered /\ Len(call.lines) = 1 /\ ~SkippedLine(call.lines[1])) =>
        (result.body # <<>>
            <=> InStatedWindow(call.lines[1].sale_date, call.dateRange, call.now))


\* ====================================================================
\* Properties of the entity controllers
\* ====================================================================

\* C26: in every entity controller a get-by-id (or get-by-barcode) whose
\* single-row query finds no row is answered with 404 and never with 500:
\* getConsignorById, getProductByBarcode, and getAgreementById in each
\* agreement controller variant.
C26_NoRowIsNotFound ==
    (call.op \in GetByIdHandlers /\ call.valid /\ call.outcome = "PGRST116") =>
        result.code = 404


\* ====================================================================
\* Further properties of the commission and payment handlers
\* ====================================================================

\* The two writes of a payment request: the insert adds one payment row with
\* the submitted amount and touches nothing else; the update touches no
\* payment and no item row, and changes of a tracking row nothing but the
\* status, which becomes paid, and only for the record of the request.
C27_Step ==
    \A r \in Reqs :
        /\ (pc[r] = "payInsert" /\ pc'[r] = "payUpdate") =>
             /\ \E p \in commission_payments' \ commission_payments :
                  /\ commission_payments' = commission_payments \cup {p}
                  /\ p.amount = arg[r].amount
                  /\ p.commission_tracking_id = arg[r].id
             /\ UNCHANGED <<commission_tracking, commission_items>>
        /\ (pc[r] = "payUpdate" /\ pc'[r] = "idle") =>
             /\ UNCHANGED <<commission_payments, commission_items>>
             /\ \A t \in commission_tracking :
                  \E u \in commission_tracking' :
                      /\ u = [t EXCEPT !.status = u.status]
                      /\ u.paid_amount = 0
                      /\ u # t => (t.id = arg[r].id /\ u.status = "paid")
             /\ Cardinality(commission_tracking') = Cardinality(commission_tracking)
             /\ (clean /\ clean') =>
                  \A u \in commission_tracking' : u.id = arg[r].id => u.status = "paid"

C28_ListingsAgreeWithGate ==
    LET unpaid == UnpaidResponse(TRUE).body.rows
        paid == PaidResponse(TRUE).body.rows
    IN  /\ \A t \in commission_tracking :
             (VerifyResponse(t.id, TRUE).code = 200 /\ Payable(t.status)) => t \in unpaid
        /\ \A t \in unpaid :
             VerifyResponse(t.id, TRUE).code = 200 /\ Payable(t.status)
        /\ paid = { t \in commission_tracking : t.status = "paid" }
        /\ unpaid \cap paid = {}


\* C29: the two verification implementations agree: for every existing
\* tracking record, whatever its status (pending, calculated, paid or any
\* other value), the controller verifyCommissionTracking accepts the record
\* as valid exactly when the route GET /commissions/:id/verify reports it
\* payable, and both answer not-found for an absent record.
C29_VerificationsAgree ==
    \A id \in TrackingIds :
        LET route == VerifyResponse(id, TRUE)
            controller == verifyCommissionTrackingResponse(id, TRUE, TRUE)
        IN  /\ TrackingById(id) = {} => (route.code = 404 /\ controller.code = 404)
            /\ TrackingById(id) # {} => (controller.code = 200 <=> route.code = 200)


\* ====================================================================
\* updateProductLocationAndStatus
\* ====================================================================
\* The largest quantity a location request carries.
MaxQty == 2

ProductIds == {1, 2}
Quantities == -1..MaxQty

\* The products when the server starts: product 1 is registered and not yet
\* placed, product 2 does not exist.
InitialProducts == {[id |-> 1, status |-> "pending", quantity |-> 1]}

ProductById(id) == { p \in products : p.id = id }
LocationsOf(id) == { l \in product_locations : l.product_id = id }

\* The validation and the existence check (productController.js:442-476):
\* complete says that the id and the location fields are supplied; a
\* missing product is the PGRST116 error of single().
ProductCheckResponse(id, complete, quantity, ok) ==
    IF ~complete THEN Response(400, "Missing required location fields", NoBody)
    ELSE IF quantity < 0 THEN Response(400, "Invalid quantity provided for location.", NoBody)
    ELSE IF ~ok THEN Response(500, "Error checking product existence before update.", NoBody)
    ELSE IF ProductById(id) = {} THEN Response(404, "Product not found.", NoBody)
    ELSE Continue

\* What the handler has in hand while it runs: the rows as they were when
\* the request came in.
AtEntry == [products |-> products, product_locations |-> product_locations]

updateProductLocationAndStatus(r, id, complete, quantity, ok) ==
    /\ Enter(r)
    /\ Proceed(r, ProductCheckResponse(id, complete, quantity, ok),
               [NoArg EXCEPT !.id = id, !.amount = Num(quantity)], AtEntry, "locationUpsert")
    /\ History((~complete \/ quantity < 0 \/ ok) /\ Alone(r), reported)
    /\ UNCHANGED <<sale_items, tables, nextTrackingId, products, product_locations>>
    /\ UNCHANGED callVars

\* The upsert of the location row, one row per product
\* (productController.js:478-503).
Upsert(id, quantity) ==
    { l \in product_locations : l.product_id # id }
        \cup {[product_id |-> id, quantity |-> quantity]}

LocationUpsertResponse(r, ok) ==
    IF ~ok THEN Response(500, "Failed to update product location.", NoBody) ELSE Continue

LocationUpsert(r, ok) ==
    /\ pc[r] = "locationUpsert"
    /\ product_locations' = IF ok THEN Upsert(arg[r].id, arg[r].amount.v)
                            ELSE product_locations
    /\ Proceed(r, LocationUpsertResponse(r, ok), arg[r], loc[r], "productUpdate")
    /\ History(ok, reported)
    /\ UNCHANGED <<sale_items, tables, nextTrackingId, products>>
    /\ UNCHANGED callVars

\* The update of the product row and the response
\* (productController.js:505-529).
InStock(id, quantity) ==
    { IF p.id = id THEN [p EXCEPT !.status = "in_stock", !.quantity = quantity] ELSE p :
      p \in products }

ProductUpdateResponse(r, ok) ==
    IF ~ok THEN Response(500, "Failed to update product status/quantity. Location was updated.",
                         NoBody)
    ELSE Response(200, "Product location updated and status set to in_stock successfully",
                  NoBody)

ProductUpdate(r, ok) ==
    /\ pc[r] = "productUpdate"
    /\ products' = IF ok THEN InStock(arg[r].id, arg[r].amount.v) ELSE products
    /\ Proceed(r, ProductUpdateResponse(r, ok), arg[r], loc[r], "idle")
    /\ History(ok, reported)
    /\ UNCHANGED <<sale_items, tables, nextTrackingId, product_locations>>
    /\ UNCHANGED callVars

\* The location requests are studied over an empty commission store.
ProductInit ==
    /\ sale_items = {}
    /\ commission_tracking = {}
    /\ commission_items = {}
    /\ commission_payments = {}
    /\ nextTrackingId = 1
    /\ pc = [r \in Reqs |-> "idle"]
    /\ arg = [r \in Reqs |-> NoArg]
    /\ loc = [r \in Reqs |-> NoLoc]
    /\ clean = TRUE
    /\ reported = NoReports
    /\ call = NoCall
    /\ result = NoResult
    /\ products = InitialProducts
    /\ product_locations = {}

ProductNext ==
    \/ \E r \in Reqs, id \in ProductIds, complete \in BOOLEAN, quantity \in Quantities,
          ok \in BOOLEAN :
           updateProductLocationAndStatus(r, id, complete, quantity, ok)
    \/ \E r \in Reqs, ok \in BOOLEAN : LocationUpsert(r, ok)
    \/ \E r \in Reqs, ok \in BOOLEAN : ProductUpdate(r, ok)

ProductSpec == ProductInit /\ [][ProductNext]_vars

\* C30: updateProductLocationAndStatus keeps product and location consistent.
\* For a product id that does not exist it answers 404 and writes nothing;
\* immediately after a successful call the product has status in_stock and
\* its quantity equals the quantity of its single product_locations row; and
\* whenever the call is answered with a failure, neither the
\* product_locations row nor the product row has been changed.  A request
\* that is answered on entry leaves pc as it is; in a run that was clean a
\* step that ends it is a failed store call, and the rows at entry are those
\* before the call.
C30_Step ==
    /\ \A id \in ProductIds : \A quantity \in 0..MaxQty :
         ProductById(id) = {} => ProductCheckResponse(id, TRUE, quantity, TRUE).code = 404
    /\ pc' = pc => UNCHANGED <<products, product_locations>>
    /\ \A r \in Reqs :
         /\ (pc[r] = "productUpdate" /\ pc'[r] = "idle" /\ clean /\ clean') =>
              \E p \in products' : \E l \in product_locations' :
                  /\ p.id = arg[r].id
                  /\ p.status = "in_stock"
                  /\ { m \in product_locations' : m.product_id = p.id } = {l}
                  /\ l.quantity = p.quantity
         /\ (pc[r] # "idle" /\ pc'[r] = "idle" /\ clean /\ ~clean') =>
              /\ products' = loc[r].products
              /\ product_locations' = loc[r].product_locations

C30_ProductAndLocationConsistent == [][C30_Step]_vars

====
